---- MODULE Spec2Model ----
(***************************************************************************)
(* Model of check_playwright.py: the Playwright/Chromium provisioning      *)
(* script (run_command, main and the sys.exit(main()) entry point), under  *)
(* the specification Spec, and of the optional-module loading and the      *)
(* /health endpoint of main.py, under the specification SpecApp.           *)
(*                                                                         *)
(* Text (command output, stderr) is a sequence of one-character strings,   *)
(* so that lower(), strip(), slicing and the `in` substring test are       *)
(* computed the way Python computes them.                                  *)
(***************************************************************************)
EXTENDS Integers, Sequences, FiniteSets, TLC

VARIABLES
    pc,               \* position of the script: start, smoke, version, list, loop, returned, raised, exited
    chromium_path_exists, \* os.path.exists(chromium_path), fixed for the run
    os_environ,       \* the process environment os.environ
    environ_at_entry, \* os.environ as it was when main() was entered
    subprocess_bound, \* is main()'s LOCAL name `subprocess` bound (line 46 binds it)
    first_ok,         \* the install tool: index of the first install invocation that exits 0 (0: none)
    version_response, \* what the version-check subprocess did, or NoResult
    list_response,    \* what the list-installed subprocess did, or NoResult
    version_result,   \* (success, output) of the version check, or NoResult
    list_result,      \* (success, output) of the list-installed query, or NoResult
    version_calls,    \* number of version-check commands run
    list_calls,       \* number of list-installed commands run
    smoke_outcome,    \* what the smoke test did, or NoResult
    smoke_verdict,    \* what main() printed about the smoke test
    retry,            \* outer loop variable
    mirror_idx,       \* index into mirror_sources of the inner loop
    env,              \* the local `env` built for the current attempt, or NoEnv
    attempts,         \* (retry, mirror index) of every loop iteration begun, in order
    install_calls,    \* every install command run: its round, mirror, environment and response
    result,           \* the terminal message main() printed
    success_mirror,   \* the mirror named by the success message
    remediation,      \* the manual-install commands printed after exhaustion
    return_value,     \* value returned by main() (-1: none yet)
    raised_exc,       \* exception that left main(), or None
    exit_code,        \* exit status of the process (-1: still running)
    \* main.py
    app_block,        \* next guarded import block of main.py to run (0: main.py is not
                      \* being imported; Len(optional_blocks) + 1: the app is serving)
    module_globals,   \* the optional names bound in main.py's module namespace
    registered,       \* the features whose routes have been registered on the app
    import_log,       \* per block run, how many of its imports succeeded
    health_requests,  \* number of GET /health requests answered
    health_response   \* the "modules" object of the last /health response, or NoResult

\* the state of check_playwright.py
playwright_vars ==
        << pc, chromium_path_exists, os_environ, environ_at_entry, subprocess_bound,
           first_ok, version_response, list_response, version_result, list_result,
           version_calls, list_calls, smoke_outcome, smoke_verdict, retry, mirror_idx,
           env, attempts, install_calls, result, success_mirror, remediation,
           return_value, raised_exc, exit_code >>

\* the state of main.py
app_vars == << app_block, module_globals, registered, import_log, health_requests,
               health_response >>

vars == << playwright_vars, app_vars >>

None == "None"
\* a (success, output) pair, smoke outcome or environment that does not exist yet
NoResult == [ kind |-> "none" ]
NoEnv == [ none |-> TRUE ]

(***************************************************************************)
(* Text                                                                    *)
(***************************************************************************)
UpperCase == << "A","B","C","D","E","F","G","H","I","J","K","L","M",
                "N","O","P","Q","R","S","T","U","V","W","X","Y","Z" >>
LowerCase == << "a","b","c","d","e","f","g","h","i","j","k","l","m",
                "n","o","p","q","r","s","t","u","v","w","x","y","z" >>
WhiteSpace == { " ", "\n", "\t" }

LowerChar(c) ==
    IF \E i \in 1..Len(UpperCase) : UpperCase[i] = c
    THEN LowerCase[CHOOSE i \in 1..Len(UpperCase) : UpperCase[i] = c]
    ELSE c

\* str.lower()
Lower(s) == [ i \in 1..Len(s) |-> LowerChar(s[i]) ]

\* `sub in s`
Contains(sub, s) ==
    \E i \in 0..(Len(s) - Len(sub)) : SubSeq(s, i + 1, i + Len(sub)) = sub

\* s[:n]
Prefix(s, n) == SubSeq(s, 1, IF Len(s) < n THEN Len(s) ELSE n)

RECURSIVE LStrip(_)
LStrip(s) == IF s # << >> /\ Head(s) \in WhiteSpace THEN LStrip(Tail(s)) ELSE s

RECURSIVE RStrip(_)
RStrip(s) ==
    IF s # << >> /\ s[Len(s)] \in WhiteSpace THEN RStrip(SubSeq(s, 1, Len(s) - 1)) ELSE s

\* str.strip()
Strip(s) == RStrip(LStrip(s))

TxtEmpty      == << >>
TxtVersion    == << "V","e","r","s","i","o","n"," ","1",".","4","\n" >>
TxtChromium   == << "c","h","r","o","m","i","u","m" >>
TxtChromiumCap == << " ","C","h","r","o","m","i","u","m","-","1","2","0","8","\n" >>
TxtChromiumUp == << "C","H","R","O","M","I","U","M" >>
TxtFirefox    == << "f","i","r","e","f","o","x","\n" >>
TxtChrome     == << "c","h","r","o","m","e" >>
TxtSUCCESS    == << "S","U","C","C","E","S","S" >>
TxtSuccessNl  == << "S","U","C","C","E","S","S","\n" >>
TxtFAILED     == << "F","A","I","L","E","D","\n" >>
TxtECONNRESET == << "E","C","O","N","N","R","E","S","E","T" >>
TxtReset      == << "r","e","a","d"," ","E","C","O","N","N","R","E","S","E","T" >>
TxtTimedOutLc == << "t","i","m","e","d"," ","o","u","t" >>
TxtTimedOut   == << "T","i","m","e","d"," ","O","u","t" >>
TxtGarbage    == << "?","?","\n","e","c","o","n","n" >>

(***************************************************************************)
(* Environment variables                                                   *)
(***************************************************************************)
Unset == "<unset>"
BROWSERS_PATH == "PLAYWRIGHT_BROWSERS_PATH"
DOWNLOAD_HOST == "PLAYWRIGHT_DOWNLOAD_HOST"
EnvNames == { BROWSERS_PATH, DOWNLOAD_HOST }

local_browsers_path == "<project_dir>/browsers"
TencentUrl == "https://mirrors.cloud.tencent.com/playwright/"
HuaweiUrl  == "https://mirrors.huaweicloud.com/playwright/"

mirror_sources ==
    << [ name |-> "Tencent", url |-> TencentUrl ],
       [ name |-> "Huawei",  url |-> HuaweiUrl ],
       [ name |-> "default", url |-> None ] >>

max_retries == 3

\* number of (round, mirror) pairs of the retry loop
TotalAttempts == max_retries * Len(mirror_sources)

\* lines 155-157, the local `env`:
\* env = os.environ.copy(); if mirror_url: env['PLAYWRIGHT_DOWNLOAD_HOST'] = mirror_url
AttemptEnv(environ, mirror_url) ==
    IF mirror_url # None
    THEN [ environ EXCEPT ![DOWNLOAD_HOST] = mirror_url ]
    ELSE environ

\* faulty variant: env = os.environ (no copy), so line 157 writes the process environment
EnvironAfterAttempt_aliased(environ, mirror_url) == AttemptEnv(environ, mirror_url)

\* lines 155-157, os.environ: `env` is a copy, so the assignment at line 157
\* leaves the process environment as it was
EnvironAfterAttempt(environ, mirror_url) == environ

(***************************************************************************)
(* run_command and what the external commands can answer                   *)
(***************************************************************************)
StdoutTexts ==
    { TxtEmpty, TxtVersion, TxtChromium, TxtChromiumCap, TxtChromiumUp, TxtFirefox, TxtChrome }

\* what subprocess.run(cmd, ..., timeout=60) can do inside run_command
CommandResponses ==
    [ kind : {"exit"}, rc : {0, 1}, stdout : StdoutTexts ]
    \cup { [ kind |-> "timeout" ], [ kind |-> "exception" ] }

ExceptionText == << "e","r","r" >>

\* faulty variant: the return code is not looked at (return True, stdout.strip())
run_command_unchecked(resp) ==
    IF resp.kind = "exit"
    THEN [ success |-> TRUE, output |-> Strip(resp.stdout) ]
    ELSE [ success |-> FALSE, output |-> ExceptionText ]

\* run_command(cmd): (returncode == 0, stdout.strip()), or (False, str(e)) on any exception
run_command(resp) ==
    IF resp.kind = "exit"
    THEN [ success |-> (resp.rc = 0), output |-> Strip(resp.stdout) ]
    ELSE [ success |-> FALSE, output |-> ExceptionText ]

\* faulty variant: the test forgets .lower()
ReportsChromium_case_sensitive(output) == Contains(TxtChromium, output)

\* "chromium" in output.lower()
ReportsChromium(output) == Contains(TxtChromium, Lower(output))

(***************************************************************************)
(* The smoke test of the local binary                                      *)
(***************************************************************************)
\* tempfile creation fails; subprocess.run fails to start the child, times out
\* after 10 s, or completes with some stdout (empty when the child crashed)
SmokeOutcomes ==
    { [ kind |-> "tempfile_error" ], [ kind |-> "spawn_error" ], [ kind |-> "timeout" ] }
    \cup [ kind : {"exit"}, stdout : { TxtSuccessNl, TxtFAILED, TxtEmpty } ]

\* lines 96-102: the message printed about the smoke test
SmokeVerdict(o) ==
    IF o.kind = "exit"
    THEN IF Contains(TxtSUCCESS, o.stdout) THEN "verified" ELSE "verify_failed_warning"
    ELSE "verify_skipped_warning"

(***************************************************************************)
(* The install command                                                     *)
(***************************************************************************)
StderrTexts == { TxtEmpty, TxtReset, TxtTimedOut, TxtTimedOutLc, TxtGarbage }

InstallFailures ==
    [ kind : {"exit"}, rc : {1}, stderr : StderrTexts ]
    \cup { [ kind |-> "timeout" ], [ kind |-> "exception" ] }

InstallSuccess == [ kind |-> "exit", rc |-> 0, stderr |-> TxtEmpty ]

\* what the k-th install invocation of the run can answer: the tool succeeds
\* first at invocation first_ok
InstallResponses(k) ==
    IF k = first_ok THEN { InstallSuccess }
    ELSE IF first_ok = 0 \/ k < first_ok THEN InstallFailures
    ELSE InstallFailures \cup { InstallSuccess }

ErrPrefixLen == 500
TxtUnknownError == << "u","n","k","n","o","w","n" >>

\* lines 176-205: how main() classifies one install response
Classify(resp) ==
    IF resp.kind = "timeout" THEN "subprocess_timeout"
    ELSE IF resp.kind = "exception" THEN "exception"
    ELSE IF resp.rc = 0 THEN "success"
    ELSE LET error_msg == IF resp.stderr # << >>
                          THEN Prefix(resp.stderr, ErrPrefixLen)
                          ELSE TxtUnknownError
         IN  IF Contains(TxtECONNRESET, error_msg) THEN "connection_reset"
             ELSE IF Contains(TxtTimedOutLc, Lower(error_msg)) THEN "download_timeout"
             ELSE "other"

\* lines 212-221: the manual-install options printed after exhaustion
RemediationText ==
    { "python -m playwright install chromium",
      "set PLAYWRIGHT_DOWNLOAD_HOST=https://mirrors.cloud.tencent.com/playwright/",
      "offline: unpack Chromium into %LOCALAPPDATA%\\ms-playwright" }

(***************************************************************************)
(* Initial state: main() is about to be called                             *)
(***************************************************************************)
EntryEnvirons ==
    [ EnvNames -> { Unset } ]
    \cup { [ n \in EnvNames |-> IF n = BROWSERS_PATH THEN "C:/other/browsers" ELSE Unset ],
           [ n \in EnvNames |-> IF n = DOWNLOAD_HOST THEN "https://preset.example/" ELSE Unset ],
           [ n \in EnvNames |-> IF n = BROWSERS_PATH THEN "C:/other/browsers"
                                ELSE "https://preset.example/" ] }

Init ==
    /\ pc = "start"
    /\ chromium_path_exists \in BOOLEAN
    /\ os_environ \in EntryEnvirons
    /\ environ_at_entry = os_environ
    /\ subprocess_bound = FALSE
    /\ first_ok \in 0..TotalAttempts
    /\ version_response = NoResult
    /\ list_response = NoResult
    /\ version_result = NoResult
    /\ list_result = NoResult
    /\ version_calls = 0
    /\ list_calls = 0
    /\ smoke_outcome = NoResult
    /\ smoke_verdict = None
    /\ retry = 0
    /\ mirror_idx = 1
    /\ env = NoEnv
    /\ attempts = << >>
    /\ install_calls = << >>
    /\ result = None
    /\ success_mirror = None
    /\ remediation = { }
    /\ return_value = -1
    /\ raised_exc = None
    /\ exit_code = -1
    /\ app_block = 0
    /\ module_globals = { }
    /\ registered = { }
    /\ import_log = << >>
    /\ health_requests = 0
    /\ health_response = NoResult

(***************************************************************************)
(* main()                                                                  *)
(***************************************************************************)
\* lines 28-41: the local-first check
LocalCheck ==
    /\ pc = "start"
    /\ UNCHANGED app_vars
    /\ IF chromium_path_exists
       THEN /\ result' = "LocalPresent"
            /\ os_environ' = [ os_environ EXCEPT ![BROWSERS_PATH] = local_browsers_path ]
            /\ pc' = "smoke"
       ELSE /\ pc' = "version"
            /\ UNCHANGED << result, os_environ >>
    /\ UNCHANGED << chromium_path_exists, environ_at_entry, subprocess_bound, first_ok,
                    version_response, list_response, version_result, list_result,
                    version_calls, list_calls, smoke_outcome, smoke_verdict, retry,
                    mirror_idx, env, attempts, install_calls, success_mirror,
                    remediation, return_value, raised_exc, exit_code >>

\* faulty variant: the `return 0` of line 104 is missing, so the local branch falls
\* through to the version check of line 110
SmokeTest_no_return ==
    /\ pc = "smoke"
    /\ UNCHANGED app_vars
    /\ subprocess_bound' = TRUE
    /\ \E o \in SmokeOutcomes :
          /\ smoke_outcome' = o
          /\ smoke_verdict' = SmokeVerdict(o)
    /\ pc' = "version"
    /\ UNCHANGED << chromium_path_exists, os_environ, environ_at_entry, first_ok,
                    version_response, list_response, version_result, list_result,
                    version_calls, list_calls, retry, mirror_idx, env, attempts,
                    install_calls, result, success_mirror, remediation, return_value,
                    raised_exc, exit_code >>

\* lines 44-104: the advisory smoke test; `import subprocess` (line 46) binds
\* main()'s local name, every exception is caught at line 101, then return 0
SmokeTest ==
    /\ pc = "smoke"
    /\ UNCHANGED app_vars
    /\ subprocess_bound' = TRUE
    /\ \E o \in SmokeOutcomes :
          /\ smoke_outcome' = o
          /\ smoke_verdict' = SmokeVerdict(o)
    /\ return_value' = 0
    /\ pc' = "returned"
    /\ UNCHANGED << chromium_path_exists, os_environ, environ_at_entry, first_ok,
                    version_response, list_response, version_result, list_result,
                    version_calls, list_calls,
                    retry, mirror_idx, env, attempts, install_calls, result,
                    success_mirror, remediation, raised_exc, exit_code >>

\* lines 107-116: is the install tool reachable
VersionCheck ==
    /\ pc = "version"
    /\ UNCHANGED app_vars
    /\ \E resp \in CommandResponses :
          LET r == run_command(resp) IN
          /\ version_response' = resp
          /\ version_result' = r
          /\ version_calls' = version_calls + 1
          /\ IF ~r.success
             THEN /\ result' = "ToolUnavailable"
                  /\ return_value' = 0
                  /\ pc' = "returned"
             ELSE /\ pc' = "list"
                  /\ UNCHANGED << result, return_value >>
    /\ UNCHANGED << chromium_path_exists, os_environ, environ_at_entry, subprocess_bound,
                    first_ok, list_response, list_result, list_calls, smoke_outcome,
                    smoke_verdict,
                    retry, mirror_idx, env, attempts, install_calls, success_mirror,
                    remediation, raised_exc, exit_code >>

\* lines 118-147: the list-installed query; on "not installed" the retry loop
\* is entered (retry = 0 and the first mirror, as Init left them)
ListInstalled ==
    /\ pc = "list"
    /\ UNCHANGED app_vars
    /\ \E resp \in CommandResponses :
          LET r == run_command(resp) IN
          /\ list_response' = resp
          /\ list_result' = r
          /\ list_calls' = list_calls + 1
          /\ IF ~r.success
             THEN /\ result' = "ListFailed"
                  /\ return_value' = 0
                  /\ pc' = "returned"
             ELSE IF ReportsChromium(r.output)
             THEN /\ result' = "AlreadyInstalled"
                  /\ return_value' = 0
                  /\ pc' = "returned"
             ELSE /\ pc' = "loop"
                  /\ UNCHANGED << result, return_value >>
    /\ UNCHANGED << chromium_path_exists, os_environ, environ_at_entry, subprocess_bound,
                    first_ok, version_response, version_result, version_calls,
                    smoke_outcome, smoke_verdict, retry, mirror_idx, env, attempts, install_calls, success_mirror, remediation,
                    raised_exc, exit_code >>

\* lines 148-205, one iteration of the loop body, with what follows it: the next
\* (round, mirror) pair, or lines 207-225 after the last pair.
\* `import subprocess` at line 46 makes `subprocess` a local name of main(); on
\* this path line 46 has not run, so `subprocess.run` (line 165) raises
\* UnboundLocalError inside the try, and evaluating `subprocess.TimeoutExpired`
\* for the except clause (line 198) raises it again, out of main().
InstallAttempt ==
    /\ pc = "loop"
    /\ UNCHANGED app_vars
    /\ LET m == mirror_sources[mirror_idx]
           e == AttemptEnv(os_environ, m.url)
           k == Len(install_calls) + 1
           last == (retry = max_retries - 1) /\ (mirror_idx = Len(mirror_sources))
       IN
       /\ attempts' = Append(attempts, << retry, mirror_idx >>)
       /\ env' = e
       /\ os_environ' = EnvironAfterAttempt(os_environ, m.url)
       /\ IF ~subprocess_bound
          THEN /\ raised_exc' = "UnboundLocalError"
               /\ pc' = "raised"
               /\ UNCHANGED << install_calls, result, success_mirror, remediation,
                               return_value, retry, mirror_idx >>
          ELSE \E resp \in InstallResponses(k) :
                 /\ install_calls' = Append(install_calls,
                        [ retry |-> retry, mirror |-> mirror_idx, env |-> e,
                          class |-> Classify(resp) ])
                 /\ raised_exc' = raised_exc
                 /\ IF Classify(resp) = "success"
                    THEN /\ result' = "Installed"
                         /\ success_mirror' = m.name
                         /\ return_value' = 0
                         /\ pc' = "returned"
                         /\ UNCHANGED << remediation, retry, mirror_idx >>
                    ELSE IF last
                    THEN /\ result' = "Exhausted"
                         /\ remediation' = RemediationText
                         /\ return_value' = 0
                         /\ pc' = "returned"
                         /\ UNCHANGED << success_mirror, retry, mirror_idx >>
                    ELSE /\ mirror_idx' = IF mirror_idx = Len(mirror_sources)
                                          THEN 1 ELSE mirror_idx + 1
                         /\ retry' = IF mirror_idx = Len(mirror_sources)
                                     THEN retry + 1 ELSE retry
                         /\ pc' = "loop"
                         /\ UNCHANGED << result, success_mirror, remediation, return_value >>
    /\ UNCHANGED << chromium_path_exists, environ_at_entry, subprocess_bound, first_ok,
                    version_response, list_response, version_result, list_result,
                    version_calls, list_calls, smoke_outcome, smoke_verdict, exit_code >>

\* lines 227-228: sys.exit(main()); an exception that leaves main() ends the
\* interpreter with a traceback and status 1
SysExit ==
    /\ pc \in { "returned", "raised" }
    /\ UNCHANGED app_vars
    /\ exit_code' = IF pc = "returned" THEN return_value ELSE 1
    /\ pc' = "exited"
    /\ UNCHANGED << chromium_path_exists, os_environ, environ_at_entry, subprocess_bound,
                    first_ok, version_response, list_response, version_result, list_result,
                    version_calls, list_calls, smoke_outcome, smoke_verdict, retry,
                    mirror_idx, env, attempts, install_calls, result, success_mirror,
                    remediation, return_value, raised_exc >>

Next ==
    \/ LocalCheck
    \/ SmokeTest
    \/ VersionCheck
    \/ ListInstalled
    \/ InstallAttempt
    \/ SysExit

Spec == Init /\ [][Next]_vars

(***************************************************************************)
(* main.py: the guarded imports of the optional modules and /health        *)
(***************************************************************************)
\* lines 86-162: the seven try/except ImportError blocks in file order; `key`
\* is the feature's key in the /health response, `imports` the names the
\* block's import statements bind, in order
optional_blocks ==
    << [ key |-> "api_router",      imports |-> << "api_router" >> ],
       [ key |-> "session_crawler", imports |-> << "session_router" >> ],
       [ key |-> "whisper_service", imports |-> << "whisper_router" >> ],
       [ key |-> "douyin_analyzer", imports |-> << "douyin_router" >> ],
       [ key |-> "core_analysis",   imports |-> << "core_router" >> ],
       [ key |-> "install",         imports |-> << "Installer" >> ],
       [ key |-> "packaging",       imports |-> << "Packager", "NsisCreator" >> ] >>

\* lines 199-205: the name /health looks up for each key
health_names ==
    [ api_router |-> "api_router", session_crawler |-> "session_router",
      whisper_service |-> "whisper_router", douyin_analyzer |-> "douyin_router",
      core_analysis |-> "core_router", install |-> "Installer",
      packaging |-> "Packager" ]

\* the app is serving requests: every module-level statement has run
Serving == Len(optional_blocks) + 1

MaxHealthRequests == 2

\* locals() inside health_check() (lines 193-207): the namespace of the
\* function call, which has no parameter and assigns no local; the names that
\* the import blocks bind live in the module namespace, which locals() does
\* not return inside a function
health_check_locals(globals_) == { }

\* main.py starts being imported while check_playwright.py is not running
InitApp ==
    /\ pc = "start"
    /\ chromium_path_exists = FALSE
    /\ os_environ = [ n \in EnvNames |-> Unset ]
    /\ environ_at_entry = os_environ
    /\ subprocess_bound = FALSE
    /\ first_ok = 0
    /\ version_response = NoResult
    /\ list_response = NoResult
    /\ version_result = NoResult
    /\ list_result = NoResult
    /\ version_calls = 0
    /\ list_calls = 0
    /\ smoke_outcome = NoResult
    /\ smoke_verdict = None
    /\ retry = 0
    /\ mirror_idx = 1
    /\ env = NoEnv
    /\ attempts = << >>
    /\ install_calls = << >>
    /\ result = None
    /\ success_mirror = None
    /\ remediation = { }
    /\ return_value = -1
    /\ raised_exc = None
    /\ exit_code = -1
    /\ app_block = 1
    /\ module_globals = { }
    /\ registered = { }
    /\ import_log = << >>
    /\ health_requests = 0
    /\ health_response = NoResult

\* one try/except ImportError block of lines 86-162: the first k imports of
\* the block succeed and bind their names; when all succeed the routes are
\* registered (include_router or the route decorators), otherwise the
\* ImportError of import k+1 is caught and logged; then the next block runs
LoadOptionalModule ==
    /\ app_block \in 1..Len(optional_blocks)
    /\ LET b == optional_blocks[app_block] IN
       \E k \in 0..Len(b.imports) :
          /\ module_globals' = module_globals \cup { b.imports[i] : i \in 1..k }
          /\ registered' = IF k = Len(b.imports) THEN registered \cup { b.key }
                           ELSE registered
          /\ import_log' = Append(import_log, k)
    /\ app_block' = app_block + 1
    /\ UNCHANGED << health_requests, health_response >>
    /\ UNCHANGED playwright_vars

\* lines 192-207: GET /health
HealthCheck ==
    /\ app_block = Serving
    /\ health_requests < MaxHealthRequests
    /\ health_requests' = health_requests + 1
    /\ health_response' =
          [ key \in DOMAIN health_names |->
              IF health_names[key] \in health_check_locals(module_globals)
              THEN "loaded" ELSE "missing" ]
    /\ UNCHANGED << app_block, module_globals, registered, import_log >>
    /\ UNCHANGED playwright_vars

NextApp ==
    \/ LoadOptionalModule
    \/ HealthCheck

SpecApp == InitApp /\ [][NextApp]_vars

(***************************************************************************)
(* Properties                                                              *)
(***************************************************************************)
\* main() is over: it returned or an exception left it
MainEnded == pc \in { "returned", "raised", "exited" }

\* main() returned normally
MainReturned == pc \in { "returned", "exited" } /\ raised_exc = None

\* the text contains "chromium" in any mix of upper and lower case
MentionsChromium(text) ==
    \E i \in 0..(Len(text) - Len(TxtChromium)) :
        \A j \in 1..Len(TxtChromium) :
            text[i + j] \in { TxtChromium[j], TxtChromiumUp[j] }

\* the subprocess behind a run_command call completed with exit code 0
Answered(resp) == resp.kind = "exit" /\ resp.rc = 0

\* the subprocess behind a run_command call exited non-zero, timed out or raised
CommandFailed(resp) == resp.kind \in { "timeout", "exception" } \/ (resp.kind = "exit" /\ resp.rc # 0)

\* the mirror of the N-th (round, mirror) pair in loop order
MirrorOfAttempt(n) == mirror_sources[((n - 1) % Len(mirror_sources)) + 1]

\* the retry loop was entered
LoopEntered == Len(attempts) >= 1

\* C1 (short-circuit law): when the loop is entered and the install tool first
\* exits 0 at the N-th invocation, main() ends having run exactly N install
\* commands, having reported success naming the mirror of attempt N, and
\* having returned 0.
C1_ShortCircuit ==
    (MainEnded /\ LoopEntered /\ first_ok \in 1..TotalAttempts)
    => /\ MainReturned
       /\ return_value = 0
       /\ result = "Installed"
       /\ Len(install_calls) = first_ok
       /\ success_mirror = MirrorOfAttempt(first_ok).name

\* C2 (exhaustion): when the loop is entered and no install invocation ever
\* succeeds, main() ends having run exactly max_retries * len(mirror_sources)
\* install commands, in the Failed outcome, with non-empty remediation text
\* that holds the manual-install command.
C2_Exhaustion ==
    (MainEnded /\ LoopEntered /\ first_ok = 0)
    => /\ MainReturned
       /\ Len(install_calls) = TotalAttempts
       /\ result = "Exhausted"
       /\ remediation # { }
       /\ "python -m playwright install chromium" \in remediation

\* C3 (local-first): when the local Chromium binary exists, no version check,
\* no list-installed query and no install attempt is ever made, no exception
\* leaves main(), and main() ends with the local-binary success message and
\* return value 0, whatever the smoke test did.
C3_LocalFirst ==
    chromium_path_exists
    => /\ version_calls = 0
       /\ list_calls = 0
       /\ attempts = << >>
       /\ install_calls = << >>
       /\ pc # "raised"
       /\ MainEnded => (MainReturned /\ result = "LocalPresent" /\ return_value = 0)

\* C3 witness: the run is over on the local path after a smoke test that did
\* not pass (printed FAILED, printed nothing, timed out or raised).
C3_Witness ==
    /\ pc = "exited"
    /\ chromium_path_exists
    /\ result = "LocalPresent"
    /\ smoke_verdict \in { "verify_failed_warning", "verify_skipped_warning" }

\* C4: when the local binary is absent and the version check fails (non-zero
\* exit, timeout or exception), main() returns 0 with the tool-unavailable
\* message, and no list-installed query and no install attempt is ever made.
C4_ToolUnreachable ==
    (version_calls >= 1 /\ CommandFailed(version_response))
    => /\ ~chromium_path_exists
       /\ list_calls = 0
       /\ attempts = << >>
       /\ install_calls = << >>
       /\ MainReturned
       /\ result = "ToolUnavailable"
       /\ return_value = 0

\* C4 witness: the run is over after a version check that exited non-zero.
C4_Witness ==
    /\ pc = "exited"
    /\ version_calls = 1
    /\ version_response.kind = "exit"
    /\ version_response.rc # 0

\* C5: when the local binary is absent, the version check succeeds and the
\* list-installed query succeeds with output that mentions chromium in any
\* letter case, main() returns 0 with the already-installed message and no
\* install attempt is ever made.
C5_AlreadyInstalled ==
    (list_calls >= 1 /\ Answered(list_response) /\ MentionsChromium(list_response.stdout))
    => /\ ~chromium_path_exists
       /\ Answered(version_response)
       /\ attempts = << >>
       /\ install_calls = << >>
       /\ MainReturned
       /\ result = "AlreadyInstalled"
       /\ return_value = 0

\* C5 witness: the run is over after a list query whose output names
\* Chromium with a capital letter.
C5_Witness ==
    /\ pc = "exited"
    /\ list_calls = 1
    /\ Answered(list_response)
    /\ list_response.stdout = TxtChromiumCap
    /\ result = "AlreadyInstalled"

\* C6: when the local binary is absent, the version check is answered and the
\* list-installed query is answered without mentioning chromium, main() makes
\* at least one install invocation before it ends.
C6_EntersRetryLoop ==
    ( /\ MainEnded
      /\ ~chromium_path_exists
      /\ version_calls >= 1 /\ Answered(version_response)
      /\ list_calls >= 1 /\ Answered(list_response)
      /\ ~MentionsChromium(list_response.stdout) )
    => Len(install_calls) >= 1

\* C7: the process exit code is 0 on every path.
C7_ExitCodeZero == (pc = "exited") => (exit_code = 0)

\* C8: no exception ever leaves main().
C8_NeverRaises == pc # "raised" /\ raised_exc = None

C10_EnvironUnchanged == MainEnded => (os_environ = environ_at_entry)

\* C10 (amended): main() never writes PLAYWRIGHT_DOWNLOAD_HOST into the process
\* environment, the environment built for an attempt differs from the process
\* environment in PLAYWRIGHT_DOWNLOAD_HOST alone, and when main() is over the
\* process environment is the one at entry, except that on the
\* local-binary-present path PLAYWRIGHT_BROWSERS_PATH has been set to the
\* local browsers directory.
C10_EnvironFrame ==
    /\ os_environ[DOWNLOAD_HOST] = environ_at_entry[DOWNLOAD_HOST]
    /\ (attempts # << >>) => (env[BROWSERS_PATH] = os_environ[BROWSERS_PATH])
    /\ MainEnded =>
          os_environ = IF chromium_path_exists
                       THEN [ environ_at_entry EXCEPT ![BROWSERS_PATH] = local_browsers_path ]
                       ELSE environ_at_entry

\* C10 witness: the run is over on the local path and the process environment
\* is no longer the one at entry.
C10_Witness ==
    /\ pc = "exited"
    /\ chromium_path_exists
    /\ os_environ # environ_at_entry
    /\ os_environ[BROWSERS_PATH] = local_browsers_path

\* the (round, mirror index) pair of the k-th attempt in loop order
PairOfAttempt(k) ==
    << (k - 1) \div Len(mirror_sources), ((k - 1) % Len(mirror_sources)) + 1 >>

ImportSucceeded(i) == import_log[i] = Len(optional_blocks[i].imports)

\* C12 (optional-module status): each block's routes are registered exactly
\* when its own guarded import succeeded, whatever happened to the blocks
\* before it, and every /health response reports a module "loaded" when its
\* guarded import succeeded at startup and "missing" otherwise.
C12_HealthReportsModules ==
    /\ \A i \in 1..Len(import_log) :
          (optional_blocks[i].key \in registered) <=> ImportSucceeded(i)
    /\ (health_requests >= 1)
       => \A i \in 1..Len(optional_blocks) :
             (health_response[optional_blocks[i].key] = "loaded") <=> ImportSucceeded(i)

====
